---------------------------- MODULE Spec2Model ----------------------------
(*
  A model of the candidate upload pipeline (src/2-populate.py) and of the
  row conversion of the extraction step (src/1-extract_from_bq.py).

  Python values are tagged records, so that values of different Python
  types can be compared:
     None        [t |-> "none"]
     bool        [t |-> "bool",  b |-> TRUE]
     int         [t |-> "int",   i |-> 2010]
     float       [t |-> "float", whole |-> 2, frac |-> <<"5">>]   (2.5, non-negative)
     str         [t |-> "str",   s |-> <<"a", "b">>]   (a sequence of characters)
     list        [t |-> "list",  l |-> <<v1, v2>>]
     dict        [t |-> "dict",  d |-> [key |-> v, ...]]
  A call that may raise returns [ok |-> TRUE, v |-> value] or
  [ok |-> FALSE, exc |-> "TypeError"].
*)
EXTENDS Integers, Sequences, FiniteSets, TLC

VARIABLES
    padYear,        \* whether the platform's strftime zero-pads %Y to 4 digits
    pc,             \* position of the script / of the function call
    file,           \* mentra_data.json: the lines, each parseable or not
    lineNo,         \* lines consumed by read_json_file
    candidates,     \* the list read_json_file builds (data / candidates)
    idx,            \* 1-based position of the insert loop in candidates
    collection,     \* the 'Candidate' collection: "stale", "absent", "fresh"
    client,         \* the store connection: "none", "open", "closed"
    store,          \* objects held by the fresh collection, in insert order
    normalized,     \* history: candidate positions given to process_candidate
    attempts,       \* history: one entry per record handed to data.insert
    log,            \* what the script printed
    exitStatus,     \* -1 while running, else the process exit status
    arg,            \* argument of the function under study
    refYear,        \* the reference ("current") year of the date window
    ret,            \* result of the function under study
    ret2            \* result of applying it again to its own output

vars == <<padYear, pc, file, lineNo, candidates, idx, collection, client, store,
          normalized, attempts, log, exitStatus, arg, refYear, ret, ret2>>

----------------------------------------------------------------------------
(* Python values *)

None == [t |-> "none"]
PBool(b) == [t |-> "bool", b |-> b]
PInt(i) == [t |-> "int", i |-> i]
PFloat(w, f) == [t |-> "float", whole |-> w, frac |-> f]
PStr(s) == [t |-> "str", s |-> s]
PList(l) == [t |-> "list", l |-> l]
PDict(d) == [t |-> "dict", d |-> d]

EmptyStr == PStr(<<>>)
EmptyList == PList(<<>>)
EmptyDict == PDict([k \in {} |-> None])

Ok(v) == [ok |-> TRUE, v |-> v]
Raise(e) == [ok |-> FALSE, exc |-> e]

Digits == <<"0", "1", "2", "3", "4", "5", "6", "7", "8", "9">>

IsDigit(c) == \E i \in 1..10 : Digits[i] = c

DigitVal(c) == (CHOOSE i \in 1..10 : Digits[i] = c) - 1

RECURSIVE NatOfChars(_)
\* the number written by a non-empty sequence of digits
NatOfChars(s) ==
    IF Len(s) = 0 THEN 0
    ELSE 10 * NatOfChars(SubSeq(s, 1, Len(s) - 1)) + DigitVal(s[Len(s)])

RECURSIVE CharsOfNat(_)
\* the decimal digits of a natural number, without padding
CharsOfNat(n) ==
    IF n < 10 THEN <<Digits[n + 1]>>
    ELSE CharsOfNat(n \div 10) \o <<Digits[(n % 10) + 1]>>

RECURSIVE ZeroPad(_, _)
ZeroPad(s, width) == IF Len(s) >= width THEN s ELSE ZeroPad(<<"0">> \o s, width)

\* bool(x): Python truthiness
Truthy(x) ==
    CASE x.t = "none"  -> FALSE
      [] x.t = "bool"  -> x.b
      [] x.t = "int"   -> x.i # 0
      [] x.t = "float" -> x.whole # 0 \/ \E k \in 1..Len(x.frac) : x.frac[k] # "0"
      [] x.t = "str"   -> Len(x.s) > 0
      [] x.t = "list"  -> Len(x.l) > 0
      [] x.t = "dict"  -> DOMAIN x.d # {}

RECURSIVE Strip(_)
\* str.strip() for the blank
Strip(s) ==
    IF Len(s) > 0 /\ s[1] = " " THEN Strip(Tail(s))
    ELSE IF Len(s) > 0 /\ s[Len(s)] = " " THEN Strip(SubSeq(s, 1, Len(s) - 1))
    ELSE s

AllDigits(s) == Len(s) > 0 /\ \A k \in 1..Len(s) : IsDigit(s[k])

\* int(x) of a text: blanks stripped, an optional sign, then digits
IntOfText(s) ==
    LET body == Strip(s)
        signed == Len(body) > 0 /\ body[1] \in {"-", "+"}
        digits == IF signed THEN Tail(body) ELSE body
    IN  IF ~AllDigits(digits) THEN Raise("ValueError")
        ELSE IF signed /\ body[1] = "-" THEN Ok(PInt(0 - NatOfChars(digits)))
        ELSE Ok(PInt(NatOfChars(digits)))

\* int(x)
PyInt(x) ==
    CASE x.t = "int"   -> Ok(x)
      [] x.t = "bool"  -> Ok(PInt(IF x.b THEN 1 ELSE 0))
      [] x.t = "float" -> Ok(PInt(x.whole))
      [] x.t = "str"   -> IntOfText(x.s)
      [] x.t \in {"none", "list", "dict"} -> Raise("TypeError")

\* str(x) of a scalar
PyStr(x) ==
    CASE x.t = "str"   -> x
      [] x.t = "none"  -> PStr(<<"N", "o", "n", "e">>)
      [] x.t = "bool"  -> PStr(IF x.b THEN <<"T", "r", "u", "e">>
                                       ELSE <<"F", "a", "l", "s", "e">>)
      [] x.t = "int"   -> PStr(IF x.i < 0 THEN <<"-">> \o CharsOfNat(0 - x.i)
                                          ELSE CharsOfNat(x.i))
      [] x.t = "float" -> PStr(CharsOfNat(x.whole) \o <<".">> \o x.frac)

----------------------------------------------------------------------------
(* parse_date *)

IsLeap(y) == (y % 4 = 0 /\ y % 100 # 0) \/ y % 400 = 0

DaysInMonth(y, m) ==
    IF m = 2 THEN (IF IsLeap(y) THEN 29 ELSE 28)
    ELSE IF m \in {4, 6, 9, 11} THEN 30
    ELSE 31

CharAt(s, p) == IF p >= 1 /\ p <= Len(s) THEN s[p] ELSE "$"

NonZeroDigit(c) == IsDigit(c) /\ c # "0"

\* the length %m matches at position p: 1[0-2] | 0[1-9] | [1-9]
MatchMonth(s, p) ==
    IF CharAt(s, p) = "1" /\ CharAt(s, p + 1) \in {"0", "1", "2"} THEN 2
    ELSE IF CharAt(s, p) = "0" /\ NonZeroDigit(CharAt(s, p + 1)) THEN 2
    ELSE IF NonZeroDigit(CharAt(s, p)) THEN 1
    ELSE 0

\* the length %d matches at position p: 3[01] | [12]\d | 0[1-9] | [1-9] | blank[1-9]
MatchDay(s, p) ==
    IF CharAt(s, p) = "3" /\ CharAt(s, p + 1) \in {"0", "1"} THEN 2
    ELSE IF CharAt(s, p) \in {"1", "2"} /\ IsDigit(CharAt(s, p + 1)) THEN 2
    ELSE IF CharAt(s, p) = "0" /\ NonZeroDigit(CharAt(s, p + 1)) THEN 2
    ELSE IF NonZeroDigit(CharAt(s, p)) THEN 1
    ELSE IF CharAt(s, p) = " " /\ NonZeroDigit(CharAt(s, p + 1)) THEN 2
    ELSE 0

DayInRangeAnyMonth(y, m, d) == d <= 31

\* the date constructor's check of the day against the month
DayInRange(y, m, d) == d <= DaysInMonth(y, m)

\* the date of the matched year, month and day, or "year 0 is out of range",
\* "day is out of range for month"
MakeDate(y, m, d) ==
    IF y = 0 THEN Raise("ValueError")
    ELSE IF ~DayInRange(y, m, d) THEN Raise("ValueError")
    ELSE Ok([y |-> y, m |-> m, d |-> d])

\* the rest of the match, the month taking ml characters and the day dl
StrptimeDay(s, ml, dl) ==
    IF dl = 0 THEN Raise("ValueError")
    ELSE IF Len(s) # 6 + ml + dl THEN Raise("ValueError")  \* unconverted data remains
    ELSE MakeDate(NatOfChars(SubSeq(s, 1, 4)),
                  NatOfChars(SubSeq(s, 6, 5 + ml)),
                  NatOfChars(Strip(SubSeq(s, 7 + ml, 6 + ml + dl))))

StrptimeMonth(s, ml) ==
    IF ml = 0 \/ CharAt(s, 6 + ml) # "-" THEN Raise("ValueError")
    ELSE StrptimeDay(s, ml, MatchDay(s, 7 + ml))

\* datetime.strptime(x, "%Y-%m-%d"): the date [y, m, d], or the exception
Strptime(x) ==
    IF x.t # "str" THEN Raise("TypeError")
    ELSE IF ~(Len(x.s) >= 5 /\ (\A k \in 1..4 : IsDigit(x.s[k])) /\ x.s[5] = "-")
    THEN Raise("ValueError")                               \* does not match format
    ELSE StrptimeMonth(x.s, MatchMonth(x.s, 6))

\* date.strftime("%Y-%m-%d"); %Y is padded to 4 digits or not, by platform
Strftime(date) ==
    PStr((IF padYear THEN ZeroPad(CharsOfNat(date.y), 4) ELSE CharsOfNat(date.y))
         \o <<"-">> \o ZeroPad(CharsOfNat(date.m), 2)
         \o <<"-">> \o ZeroPad(CharsOfNat(date.d), 2))

\* the exceptions parse_date's except clause catches
Caught == {"ValueError", "TypeError"}

\* return strptime(...).strftime(...), within try / except
FormatOrNone(r) ==
    IF r.ok THEN Ok(Strftime(r.v))
    ELSE IF r.exc \in Caught THEN Ok(None)
    ELSE r

\* parse_date(date_str)
parse_date(date_str) ==
    IF ~Truthy(date_str) THEN Ok(None) ELSE FormatOrNone(Strptime(date_str))

----------------------------------------------------------------------------
(* process_candidate *)

\* d.get(key, default) of a dict d
DictGet(x, key, default) == IF key \in DOMAIN x.d THEN x.d[key] ELSE default

\* the elements a for loop draws from x (a mapping in place of an array is
\* outside the inputs modelled)
PyIter(x) ==
    CASE x.t = "list" -> Ok(x.l)
      [] x.t = "str"  -> Ok([k \in 1..Len(x.s) |-> PStr(<<x.s[k]>>)])
      [] x.t \in {"none", "bool", "int", "float"} -> Raise("TypeError")

\* int(...) or None
OrNone(r) == IF ~r.ok THEN r ELSE IF r.v.i = 0 THEN Ok(None) ELSE r

\* int(edu.get(key, 0)) or None
YearField(edu, key) == OrNone(PyInt(DictGet(edu, key, PInt(0))))

\* the dict literal of one education entry, its two years evaluated
EducationDict(edu, sy, ey) ==
    IF ~sy.ok THEN sy
    ELSE IF ~ey.ok THEN ey
    ELSE Ok(PDict([degree |-> DictGet(edu, "degree", EmptyStr),
                   university_start_year |-> sy.v,
                   university_end_year |-> ey.v,
                   education_area |-> DictGet(edu, "education_area", EmptyStr),
                   school_name |-> DictGet(edu, "school_name", EmptyStr)]))

\* processed_edu of one education entry that is a dict
EducationEntry(edu) ==
    EducationDict(edu, YearField(edu, "university_start_year"),
                       YearField(edu, "university_end_year"))

RECURSIVE EducationLoop(_, _, _)
\* for edu in education_list: entries that are not dicts are passed over
EducationLoop(entries, k, acc) ==
    IF k > Len(entries) THEN Ok(PList(acc))
    ELSE IF entries[k].t # "dict" THEN EducationLoop(entries, k + 1, acc)
    ELSE LET r == EducationEntry(entries[k])
         IN  IF ~r.ok THEN r ELSE EducationLoop(entries, k + 1, Append(acc, r.v))

\* the dict literal of one experience entry, its two dates evaluated
ExperienceDict(exp, sd, ld) ==
    IF ~sd.ok THEN sd
    ELSE IF ~ld.ok THEN ld
    ELSE Ok(PDict([title |-> DictGet(exp, "title", EmptyStr),
                   employer |-> DictGet(exp, "employer", EmptyStr),
                   description |-> DictGet(exp, "description", EmptyStr),
                   is_current |-> PBool(Truthy(DictGet(exp, "is_current", PBool(FALSE)))),
                   start_date |-> sd.v,
                   left_date |-> ld.v,
                   duration_years |-> PyStr(DictGet(exp, "duration_years", EmptyStr))]))

\* processed_exp of one experience entry
ExperienceEntry(exp) ==
    IF exp.t # "dict" THEN Raise("AttributeError")
    ELSE ExperienceDict(exp, parse_date(DictGet(exp, "start_date", None)),
                             parse_date(DictGet(exp, "left_date", None)))

RECURSIVE ExperienceLoop(_, _, _)
\* for exp in experiences
ExperienceLoop(entries, k, acc) ==
    IF k > Len(entries) THEN Ok(PList(acc))
    ELSE LET r == ExperienceEntry(entries[k])
         IN  IF ~r.ok THEN r ELSE ExperienceLoop(entries, k + 1, Append(acc, r.v))

\* processed_loc of one location entry
LocationEntry(loc) ==
    IF loc.t # "dict" THEN Raise("AttributeError")
    ELSE Ok(PDict([country |-> DictGet(loc, "country", EmptyStr),
                   state |-> DictGet(loc, "state", EmptyStr),
                   city |-> DictGet(loc, "city", EmptyStr)]))

RECURSIVE LocationLoop(_, _, _)
\* for loc in locations
LocationLoop(entries, k, acc) ==
    IF k > Len(entries) THEN Ok(PList(acc))
    ELSE LET r == LocationEntry(entries[k])
         IN  IF ~r.ok THEN r ELSE LocationLoop(entries, k + 1, Append(acc, r.v))

\* the three loops, each over what iterating the field's value yields
ProcessEducation(it) == IF it.ok THEN EducationLoop(it.v, 1, <<>>) ELSE it
ProcessExperiences(it) == IF it.ok THEN ExperienceLoop(it.v, 1, <<>>) ELSE it
ProcessLocations(it) == IF it.ok THEN LocationLoop(it.v, 1, <<>>) ELSE it

\* the dict literal of processed_activity, its date evaluated
ActivityDict(activity, ll) ==
    IF ~ll.ok THEN ll
    ELSE Ok(PDict([account_age_days |-> PyStr(DictGet(activity, "account_age_days", EmptyStr)),
                   count_of_logins |-> PyStr(DictGet(activity, "count_of_logins", EmptyStr)),
                   last_login |-> ll.v]))

\* processed_activity
ProcessActivity(activity) ==
    IF activity.t # "dict" THEN Raise("AttributeError")
    ELSE ActivityDict(activity, parse_date(DictGet(activity, "last_login", None)))

\* the returned dict, given the four processed parts in the order the
\* function computes them; the first part that raised is what it raises
FinalCandidate(candidate_data, edu, exp, loc, act) ==
    IF ~edu.ok THEN edu
    ELSE IF ~exp.ok THEN exp
    ELSE IF ~loc.ok THEN loc
    ELSE IF ~act.ok THEN act
    ELSE Ok(PDict([name |-> DictGet(candidate_data, "name", EmptyStr),
                   candidate_values |-> DictGet(candidate_data, "candidate_values", EmptyStr),
                   candidate_strengths |-> DictGet(candidate_data, "candidate_strengths", EmptyStr),
                   jobSearchenvironment |-> DictGet(candidate_data, "jobSearchenvironment", EmptyList),
                   skills |-> DictGet(candidate_data, "skills", EmptyList),
                   education |-> edu.v,
                   experiences |-> exp.v,
                   locations |-> loc.v,
                   willing_to_relocate |-> PBool(Truthy(DictGet(candidate_data, "willing_to_relocate", PBool(FALSE)))),
                   mentra_profile_link |-> DictGet(candidate_data, "mentra_profile_link", EmptyStr),
                   candidate_activity |-> act.v]))

\* process_candidate(candidate_data): the processed dict, or the exception it
\* prints and re-raises
process_candidate(candidate_data) ==
    IF candidate_data.t # "dict" THEN Raise("AttributeError")
    ELSE FinalCandidate(candidate_data,
            ProcessEducation(PyIter(DictGet(candidate_data, "education", EmptyList))),
            ProcessExperiences(PyIter(DictGet(candidate_data, "experiences", EmptyList))),
            ProcessLocations(PyIter(DictGet(candidate_data, "locations", EmptyList))),
            ProcessActivity(DictGet(candidate_data, "candidate_activity", EmptyDict)))

----------------------------------------------------------------------------
(* The script: connect, reset the collection, read the file, insert *)

\* the longest input file
MaxLines == 3

\* the most failures in a row the store answers one submission with
MaxTransient == 3

\* the longest nested array of a raw record given to process_candidate
MaxEntries == 2

\* a fully populated raw record, as the extraction step writes it
EduFull ==
    PDict([degree |-> PStr(<<"B", "S", "c">>), university_start_year |-> PInt(2010),
           university_end_year |-> PInt(2014), education_area |-> PStr(<<"C", "S">>),
           school_name |-> PStr(<<"M", "I", "T">>)])

ExpFull ==
    PDict([title |-> PStr(<<"D", "e", "v">>), employer |-> PStr(<<"A", "c", "m", "e">>), description |-> PStr(<<"c", "o", "d", "e">>),
           is_current |-> PBool(TRUE), start_date |-> PStr(<<"2", "0", "2", "0", "-", "0", "1", "-", "1", "5">>),
           left_date |-> None, duration_years |-> PFloat(2, <<"5">>)])

LocFull == PDict([country |-> PStr(<<"U", "S">>), state |-> PStr(<<"N", "Y">>), city |-> PStr(<<"N", "Y", "C">>)])

ActFull ==
    PDict([account_age_days |-> PInt(40), count_of_logins |-> PInt(7),
           last_login |-> PStr(<<"2", "0", "2", "4", "-", "0", "3", "-", "0", "9">>)])

Base ==
    PDict([name |-> PStr(<<"A", "n", "n">>), candidate_values |-> PStr(<<"c", "a", "r", "e">>),
           candidate_strengths |-> PStr(<<"f", "o", "c", "u", "s">>),
           jobSearchenvironment |-> PList(<<PStr(<<"r", "e", "m", "o", "t", "e">>)>>),
           skills |-> PList(<<PStr(<<"s", "q", "l">>), PStr(<<"g", "o">>)>>),
           education |-> PList(<<EduFull>>),
           experiences |-> PList(<<ExpFull>>),
           locations |-> PList(<<LocFull>>),
           willing_to_relocate |-> PBool(TRUE),
           mentra_profile_link |-> PStr(<<"m", ".", "c", "o", "/", "a", "n", "n">>),
           candidate_activity |-> ActFull])

\* dict d with d[key] = v
With(x, key, v) ==
    PDict([k \in DOMAIN x.d \cup {key} |-> IF k = key THEN v ELSE x.d[k]])

\* dict d without key
Without(x, key) == PDict([k \in DOMAIN x.d \ {key} |-> x.d[k]])

\* a line of the file: json.loads returns obj, or raises JSONDecodeError
GoodLine(obj) == [parses |-> TRUE, obj |-> obj]
BadLine == [parses |-> FALSE]

\* the second candidate of the end-to-end scenario: a start year of 0
YearZero ==
    With(Base, "education", PList(<<With(EduFull, "university_start_year", PInt(0))>>))

NullYear ==
    With(Base, "education", PList(<<With(EduFull, "university_end_year", None)>>))

StrayExperience == With(Base, "experiences", PList(<<ExpFull, PStr(<<"n", "/", "a">>)>>))

Lines == {BadLine} \cup {GoodLine(o) : o \in {Base, YearZero, NullYear, StrayExperience}}

Files == UNION {[1..n -> Lines] : n \in 0..MaxLines}

Init ==
    /\ padYear \in BOOLEAN
    /\ pc = "connect"
    /\ file \in Files
    /\ lineNo = 0
    /\ candidates = <<>>
    /\ idx = 0
    /\ collection \in {"absent", "stale"}
    /\ client = "none"
    /\ store = <<>>
    /\ normalized = <<>>
    /\ attempts = <<>>
    /\ log = <<>>
    /\ exitStatus = -1
    /\ arg = None
    /\ refYear = 0
    /\ ret = None
    /\ ret2 = None

\* weaviate.connect_to_weaviate_cloud returns a connected client
Connect ==
    /\ pc = "connect"
    /\ client' = "open"
    /\ log' = Append(log, [ev |-> "Connected"])
    /\ pc' = "delete"
    /\ UNCHANGED <<padYear, file, lineNo, candidates, idx, collection, store,
                   normalized, attempts, exitStatus, arg, refYear, ret, ret2>>

\* the connection raises: the exception is not caught and ends the process
ConnectFailed ==
    /\ pc = "connect"
    /\ exitStatus' = 1
    /\ pc' = "crashed"
    /\ UNCHANGED <<padYear, file, lineNo, candidates, idx, collection, client, store,
                   normalized, attempts, log, arg, refYear, ret, ret2>>

\* client.collections.delete("Candidate"): an exception is printed and passed over
DeleteCollection ==
    /\ pc = "delete"
    /\ \E raised \in BOOLEAN :
          IF raised
          THEN /\ log' = Append(log, [ev |-> "NoExistingCollection"])
               /\ UNCHANGED collection
          ELSE /\ log' = Append(log, [ev |-> "Deleted"])
               /\ collection' = "absent"
    /\ pc' = "create"
    /\ UNCHANGED <<padYear, file, lineNo, candidates, idx, client, store,
                   normalized, attempts, exitStatus, arg, refYear, ret, ret2>>

\* client.collections.create(...) returns
CreateCollection ==
    /\ pc = "create"
    /\ collection' = "fresh"
    /\ log' = Append(log, [ev |-> "Created"])
    /\ pc' = "read"
    /\ UNCHANGED <<padYear, file, lineNo, candidates, idx, client, store,
                   normalized, attempts, exitStatus, arg, refYear, ret, ret2>>

CreateFailedContinue ==
    /\ pc = "create"
    /\ log' = Append(log, [ev |-> "ErrorCreating"])
    /\ pc' = "read"
    /\ UNCHANGED <<padYear, file, lineNo, candidates, idx, collection, client, store,
                   normalized, attempts, exitStatus, arg, refYear, ret, ret2>>

\* client.collections.create(...) raises: print, client.close(), exit(1)
CreateFailed ==
    /\ pc = "create"
    /\ log' = Append(log, [ev |-> "ErrorCreating"])
    /\ client' = "closed"
    /\ exitStatus' = 1
    /\ pc' = "exited"
    /\ UNCHANGED <<padYear, file, lineNo, candidates, idx, collection, store,
                   normalized, attempts, arg, refYear, ret, ret2>>

\* read_json_file: a line that parses is appended to data
ReadLine ==
    /\ pc = "read"
    /\ lineNo < Len(file)
    /\ file[lineNo + 1].parses
    /\ candidates' = Append(candidates, file[lineNo + 1].obj)
    /\ lineNo' = lineNo + 1
    /\ UNCHANGED <<padYear, pc, file, idx, collection, client, store,
                   normalized, attempts, log, exitStatus, arg, refYear, ret, ret2>>

ReadBadLineSkip ==
    /\ pc = "read"
    /\ lineNo < Len(file)
    /\ ~file[lineNo + 1].parses
    /\ log' = Append(log, [ev |-> "ErrorParsing", line_number |-> lineNo + 1])
    /\ lineNo' = lineNo + 1
    /\ UNCHANGED <<padYear, pc, file, candidates, idx, collection, client, store,
                   normalized, attempts, exitStatus, arg, refYear, ret, ret2>>

\* read_json_file: a line that does not parse is printed with its number and
\* the JSONDecodeError re-raised, through the caller, out of the script
ReadBadLine ==
    /\ pc = "read"
    /\ lineNo < Len(file)
    /\ ~file[lineNo + 1].parses
    /\ log' = log \o <<[ev |-> "ErrorParsing", line_number |-> lineNo + 1],
                       [ev |-> "FailedToParse"]>>
    /\ lineNo' = lineNo + 1
    /\ exitStatus' = 1
    /\ pc' = "crashed"
    /\ UNCHANGED <<padYear, file, candidates, idx, collection, client, store,
                   normalized, attempts, arg, refYear, ret, ret2>>

\* read_json_file returns the list
ReadDone ==
    /\ pc = "read"
    /\ lineNo = Len(file)
    /\ log' = Append(log, [ev |-> "Parsed", count |-> Len(candidates)])
    /\ idx' = 1
    /\ pc' = "loop"
    /\ UNCHANGED <<padYear, file, lineNo, candidates, collection, client, store,
                   normalized, attempts, exitStatus, arg, refYear, ret, ret2>>

InsertRetrying(transient) ==
    [tries |-> IF transient < 3 THEN transient + 1 ELSE 3, stored |-> transient < 3]

\* data.insert(processed_candidate), called once, of a store whose first
\* `transient` answers to this submission are failures
Insert(transient) == [tries |-> 1, stored |-> transient = 0]

SameIdxOnFailure(i, stored) == IF stored THEN i + 1 ELSE i

\* the for loop moves to the next candidate
NextIdx(i, stored) == i + 1

\* process_candidate returned r.v: the record is inserted, the loop goes on
Submit(r) ==
    /\ normalized' = Append(normalized, idx)
    /\ IF Truthy(r.v)
       THEN \E transient \in 0..MaxTransient :
               /\ attempts' = Append(attempts,
                      [line |-> idx, transient |-> transient,
                       tries |-> Insert(transient).tries,
                       stored |-> Insert(transient).stored])
               /\ store' = IF Insert(transient).stored THEN Append(store, r.v) ELSE store
               /\ log' = Append(log,
                      [ev |-> IF Insert(transient).stored THEN "Inserted"
                                                          ELSE "ErrorInserting",
                       line |-> idx])
               /\ idx' = NextIdx(idx, Insert(transient).stored)
       ELSE /\ log' = Append(log, [ev |-> "Skipping", line |-> idx])
            /\ idx' = idx + 1
            /\ UNCHANGED <<attempts, store>>
    /\ UNCHANGED <<padYear, pc, file, lineNo, candidates, collection, client,
                   exitStatus, arg, refYear, ret, ret2>>

\* process_candidate raised r.exc: the outer except prints, finally closes
\* the client, the script ends
Abandon(r) ==
    /\ normalized' = Append(normalized, idx)
    /\ log' = log \o <<[ev |-> "ErrorProcessing", line |-> idx],
                       [ev |-> "UnexpectedError", exc |-> r.exc],
                       [ev |-> "Closed"]>>
    /\ client' = "closed"
    /\ exitStatus' = 0
    /\ pc' = "done"
    /\ UNCHANGED <<padYear, file, lineNo, candidates, idx, collection, store,
                   attempts, arg, refYear, ret, ret2>>

\* one pass of the loop body
LoopBody(r) == IF r.ok THEN Submit(r) ELSE Abandon(r)

InsertStep ==
    /\ pc = "loop"
    /\ idx <= Len(candidates)
    /\ LoopBody(process_candidate(candidates[idx]))

\* the loop is exhausted: finally closes the client, the script ends
LoopDone ==
    /\ pc = "loop"
    /\ idx > Len(candidates)
    /\ log' = Append(log, [ev |-> "Closed"])
    /\ client' = "closed"
    /\ exitStatus' = 0
    /\ pc' = "done"
    /\ UNCHANGED <<padYear, file, lineNo, candidates, idx, collection, store,
                   normalized, attempts, arg, refYear, ret, ret2>>

Next ==
    \/ Connect
    \/ ConnectFailed
    \/ DeleteCollection
    \/ CreateCollection
    \/ CreateFailed
    \/ ReadLine
    \/ ReadBadLine
    \/ ReadDone
    \/ InsertStep
    \/ LoopDone

Spec == Init /\ [][Next]_vars

----------------------------------------------------------------------------
(* parse_date on its own *)

YearTexts == {<<"1", "8", "5", "0">>, <<"1", "8", "9", "9">>, <<"1", "9", "0", "0">>, <<"2", "0", "2", "4">>, <<"2", "0", "2", "9">>, <<"2", "0", "3", "0">>,
              <<"0", "8", "5", "0">>, <<"0", "0", "0", "0">>, <<"9", "9">>, <<"8", "5", "0">>}

MonthTexts == {<<"1">>, <<"0", "1">>, <<"0", "2">>, <<"1", "2">>, <<"1", "3">>, <<"0", "0">>}

DayTexts == {<<"1">>, <<"0", "1">>, <<"2", "8">>, <<"2", "9">>, <<"3", "0">>, <<"3", "1">>, <<"3", "2">>, <<"0">>, <<" ", "5">>}

OtherDateInputs ==
    {None, EmptyStr, PInt(2024), PInt(0), PBool(TRUE), PFloat(2024, <<"0">>),
     PList(<<PStr(<<"2", "0", "2", "4", "-", "0", "1", "-", "0", "1">>)>>), EmptyList,
     PStr(<<"a", "b", "c">>), PStr(<<"2", "0", "2", "4", "-", "0", "1", "-", "0", "1", "T", "0", "0", ":", "0", "0", ":", "0", "0", "+", "0", "0", ":", "0", "0">>), PStr(<<"2", "0", "2", "4", "/", "0", "1", "/", "0", "1">>), PStr(<<"2", "0", "2", "4", "-", "0", "1", "-", "0", "1", " ">>),
     PStr(<<" ", "2", "0", "2", "4", "-", "0", "1", "-", "0", "1">>), PStr(<<"2", "0", "2", "4", "-", "0", "1", "-", "0", "1", "1">>), PStr(<<"2", "0", "2", "4", "-", "-", "0", "1", "-", "0", "1">>), PStr(<<"+", "2", "0", "2", "4", "-", "0", "1", "-", "0", "1">>),
     PStr(<<"2", "0", "2", "4", "-", "0", "1", "-">>), PStr(<<"2", "0", "2", "4", "-", "0", "1">>), PStr(<<"2", "4", "-", "1", "-", "1">>)}

DateInputs ==
    {PStr(y \o <<"-">> \o m \o <<"-">> \o d) :
        y \in YearTexts, m \in MonthTexts, d \in DayTexts}
    \cup {PStr(y) : y \in YearTexts}
    \cup {PStr(y \o <<"-">> \o m) : y \in YearTexts, m \in MonthTexts}
    \cup OtherDateInputs

RefYears == {2024, 2025}

InitDate ==
    /\ padYear \in BOOLEAN
    /\ pc = "call"
    /\ arg \in DateInputs
    /\ refYear \in RefYears
    /\ ret = None
    /\ ret2 = None
    /\ file = <<>>
    /\ lineNo = 0
    /\ candidates = <<>>
    /\ idx = 0
    /\ collection = "absent"
    /\ client = "none"
    /\ store = <<>>
    /\ normalized = <<>>
    /\ attempts = <<>>
    /\ log = <<>>
    /\ exitStatus = -1

\* a call of parse_date(arg)
ParseDate ==
    /\ pc = "call"
    /\ ret' = parse_date(arg)
    /\ pc' = "returned"
    /\ UNCHANGED <<padYear, file, lineNo, candidates, idx, collection, client, store,
                   normalized, attempts, log, exitStatus, arg, refYear, ret2>>

NextDate == ParseDate

SpecDate == InitDate /\ [][NextDate]_vars

----------------------------------------------------------------------------
(* process_candidate on its own *)

\* stands for a key that the mapping does not hold
Missing == [t |-> "missing"]

\* dict x with key bound to v, or without key when v is Missing
Put(x, key, v) == IF v = Missing THEN Without(x, key) ELSE With(x, key, v)

\* all sequences of at most n members of S
SeqsUpTo(S, n) == UNION {[1..k -> S] : k \in 0..n}

YearValues ==
    {Missing, None, PInt(0), PInt(2010), PStr(<<"2", "0", "1", "0">>), PStr(<<"0">>), PStr(<<"a", "b", "c">>), EmptyStr,
     PStr(<<" ", "2", "0", "1", "0", " ">>), PFloat(2010, <<"0">>), PFloat(0, <<"0">>)}

EducationEntries ==
    {Put(Put(EduFull, "university_start_year", sy), "university_end_year", ey) :
        sy \in YearValues, ey \in {PInt(2014), PInt(0)}}
    \cup {Without(EduFull, "degree"), EmptyDict, None, PStr(<<"n", "/", "a">>), PInt(7)}

DateValues ==
    {Missing, None, EmptyStr, PStr(<<"2", "0", "2", "0", "-", "0", "1", "-", "1", "5">>), PStr(<<"2", "0", "2", "0", "-", "1", "-", "5">>), PStr(<<"0", "8", "5", "0", "-", "0", "1", "-", "0", "1">>),
     PStr(<<"2", "0", "2", "0", "-", "0", "2", "-", "3", "0">>), PStr(<<"2", "0", "2", "0">>), PStr(<<"2", "0", "-", "0", "1", "-", "1", "5">>), PInt(2020)}

ExperienceEntries ==
    {Put(ExpFull, "start_date", sd) : sd \in DateValues}
    \cup {Put(ExpFull, "is_current", b) :
             b \in {Missing, None, PBool(FALSE), PInt(0), PInt(1), PStr(<<"t", "r", "u", "e">>), EmptyStr}}
    \cup {Put(ExpFull, "duration_years", y) :
             y \in {Missing, None, PInt(3), PStr(<<"2">>), PFloat(0, <<"5">>), PBool(TRUE)}}
    \cup {EmptyDict, None, PStr(<<"n", "/", "a">>), PInt(7)}

LocationEntries ==
    {LocFull, Without(LocFull, "state"), With(LocFull, "city", None), EmptyDict,
     None, PStr(<<"n", "/", "a">>), PInt(7)}

ActivityValues ==
    {Missing, None, EmptyDict, EmptyList, PStr(<<"n", "/", "a">>)}
    \cup {Put(ActFull, "last_login", d) : d \in DateValues}
    \cup {Put(ActFull, "count_of_logins", c) : c \in {Missing, None, PStr(<<"7">>), PInt(0)}}

\* values given to a field that process_candidate passes on or iterates over
PlainValues == {Missing, None, EmptyList, EmptyStr, PStr(<<"a", "b">>), PInt(0), PBool(FALSE)}

TopKeys ==
    {"name", "candidate_values", "candidate_strengths", "jobSearchenvironment",
     "skills", "education", "experiences", "locations", "willing_to_relocate",
     "mentra_profile_link"}

RawInputs(n) ==
    {With(Base, "education", PList(es)) : es \in SeqsUpTo(EducationEntries, n)}
    \cup {With(Base, "experiences", PList(es)) : es \in SeqsUpTo(ExperienceEntries, n)}
    \cup {With(Base, "locations", PList(es)) : es \in SeqsUpTo(LocationEntries, n)}
    \cup {Put(Base, "candidate_activity", a) : a \in ActivityValues}
    \cup {Put(Base, k, v) : k \in TopKeys, v \in PlainValues}
    \cup {Put(Put(Base, "skills", v), "locations", w) : v, w \in {Missing, None}}
    \cup {EmptyDict, EmptyList, None}

\* convert_row(row) of the extraction step: the value the file holds for each
\* column of the row
convert_row(row) ==
    PDict([key \in DOMAIN row.d |->
              IF key \in {"jobSearchenvironment", "skills"}
              THEN (IF Truthy(row.d[key]) THEN row.d[key] ELSE EmptyList)
              ELSE IF key \in {"education", "experiences", "locations"}
              THEN (IF Truthy(row.d[key]) THEN row.d[key] ELSE EmptyList)
              ELSE IF key = "candidate_activity"
              THEN (IF Truthy(row.d[key]) THEN row.d[key] ELSE EmptyDict)
              ELSE (IF row.d[key] # None THEN row.d[key] ELSE EmptyStr)])

InitNorm ==
    /\ padYear \in BOOLEAN
    /\ pc = "call"
    /\ arg \in RawInputs(MaxEntries)
    /\ refYear = 0
    /\ ret = None
    /\ ret2 = None
    /\ file = <<>>
    /\ lineNo = 0
    /\ candidates = <<>>
    /\ idx = 0
    /\ collection = "absent"
    /\ client = "none"
    /\ store = <<>>
    /\ normalized = <<>>
    /\ attempts = <<>>
    /\ log = <<>>
    /\ exitStatus = -1

\* the record passes through convert_row on its way into the file
Convert ==
    /\ pc = "call"
    /\ arg.t = "dict"
    /\ arg' = convert_row(arg)
    /\ pc' = "converted"
    /\ UNCHANGED <<padYear, file, lineNo, candidates, idx, collection, client, store,
                   normalized, attempts, log, exitStatus, refYear, ret, ret2>>

\* a call of process_candidate(arg)
Normalize ==
    /\ pc \in {"call", "converted"}
    /\ ret' = process_candidate(arg)
    /\ pc' = "returned"
    /\ UNCHANGED <<padYear, file, lineNo, candidates, idx, collection, client, store,
                   normalized, attempts, log, exitStatus, arg, refYear, ret2>>

\* a call of process_candidate on the dict the first call returned
Renormalize ==
    /\ pc = "returned"
    /\ ret.ok
    /\ ret2' = process_candidate(ret.v)
    /\ pc' = "renormalized"
    /\ UNCHANGED <<padYear, file, lineNo, candidates, idx, collection, client, store,
                   normalized, attempts, log, exitStatus, arg, refYear, ret>>

NextNorm == Convert \/ Normalize \/ Renormalize

SpecNorm == InitNorm /\ [][NextNorm]_vars

----------------------------------------------------------------------------
(* Properties of the script *)

Printed(ev) == \E k \in 1..Len(log) : log[k].ev = ev

PrintedFor(ev, line) == \E k \in 1..Len(log) : log[k] = [ev |-> ev, line |-> line]

Submitted(line) == \E k \in 1..Len(attempts) : attempts[k].line = line

ParseableLines == {n \in 1..Len(file) : file[n].parses}

\* C1: no record is handed to the store unless the creation of the collection
\* returned before; and once the creation has failed, the process has ended
\* with exit status 1, the client closed, no line read, no record normalized
\* or inserted.
C1_CreationFailureIsFatal ==
    /\ (attempts # <<>> \/ store # <<>>) => (collection = "fresh" /\ Printed("Created"))
    /\ Printed("ErrorCreating") =>
          /\ pc = "exited"
          /\ exitStatus = 1
          /\ client = "closed"
          /\ lineNo = 0
          /\ candidates = <<>>
          /\ normalized = <<>>
          /\ attempts = <<>>
          /\ store = <<>>

\* C1 witness: the creation failed with a record waiting in the file, and the
\* process has exited with status 1.
C1_Witness ==
    /\ Printed("ErrorCreating")
    /\ pc = "exited"
    /\ exitStatus = 1
    /\ Len(file) > 0
    /\ file[1].parses

\* C2 (as claimed): every record whose insert failed is printed as an error,
\* and once the run is over every record after it in the input has been
\* normalized and handed to the store.
C2_WriteFailuresTolerated ==
    \A k \in 1..Len(attempts) :
        ~attempts[k].stored =>
            /\ PrintedFor("ErrorInserting", attempts[k].line)
            /\ pc = "done" =>
                  \A n \in (attempts[k].line + 1)..Len(candidates) :
                      /\ \E j \in 1..Len(normalized) : normalized[j] = n
                      /\ Submitted(n)

\* C3 (as claimed): no submission takes more than 3 attempts, and a record
\* whose submission the store fails twice before accepting it is stored and
\* printed as inserted, not as an error.
C3_RetriedUpToThree ==
    \A k \in 1..Len(attempts) :
        /\ attempts[k].tries <= 3
        /\ attempts[k].transient = 2 =>
              /\ attempts[k].stored
              /\ PrintedFor("Inserted", attempts[k].line)
              /\ ~PrintedFor("ErrorInserting", attempts[k].line)

\* C3 (amended): every submission is a single attempt, never retried: the
\* record is stored and printed as inserted exactly when the store accepts
\* that first attempt, and otherwise it is not stored and is printed as an
\* error, also when a second or third attempt would have been accepted.
C3_SingleAttempt ==
    /\ \A k \in 1..Len(attempts) :
          /\ attempts[k].tries = 1
          /\ attempts[k].stored <=> attempts[k].transient = 0
          /\ attempts[k].stored <=> PrintedFor("Inserted", attempts[k].line)
          /\ ~attempts[k].stored <=> PrintedFor("ErrorInserting", attempts[k].line)
    /\ Len(store) = Cardinality({k \in 1..Len(attempts) : attempts[k].transient = 0})

\* C3 witness: the run is over and a record that the store would have taken
\* on the third attempt was tried once and is not stored.
C3_Witness ==
    /\ pc = "done"
    /\ \E k \in 1..Len(attempts) :
          /\ attempts[k].transient = 2
          /\ attempts[k].tries = 1
          /\ ~attempts[k].stored
          /\ PrintedFor("ErrorInserting", attempts[k].line)

\* the parseable lines of the file all normalize without an exception
AllNormalizable == \A n \in ParseableLines : process_candidate(file[n].obj).ok

\* C8 (as claimed): with one line of the file unparsable, and the other lines
\* records that normalize, the run is not aborted by the parse failure, and
\* when it is over after the collection was created every parseable line has
\* been handed to the store.
C8_BadLineSkipped ==
    (/\ Cardinality(ParseableLines) = Len(file) - 1
     /\ ParseableLines # {}
     /\ AllNormalizable)
    => /\ ~Printed("FailedToParse")
       /\ (exitStatus # -1 /\ collection = "fresh") =>
              Len(attempts) = Cardinality(ParseableLines)

\* C8 (amended): a line that cannot be parsed is printed with its line number
\* and the error re-raised: the run ends there with exit status 1, no later
\* line is read and no record of the file is normalized or handed to the
\* store; the insert loop is entered only when every line parsed.
C8_BadLineAborts ==
    /\ pc \in {"loop", "done"} => ParseableLines = 1..Len(file)
    /\ (\E n \in 1..lineNo : ~file[n].parses) =>
          /\ pc = "crashed"
          /\ exitStatus = 1
          /\ \A n \in 1..(lineNo - 1) : file[n].parses
          /\ \E k \in 1..Len(log) : log[k] = [ev |-> "ErrorParsing", line_number |-> lineNo]
          /\ normalized = <<>>
          /\ attempts = <<>>
          /\ store = <<>>

\* C8 witness: three lines, the second unparsable: the run crashed on line 2
\* with nothing handed to the store.
C8_Witness ==
    /\ Len(file) = 3
    /\ file[1].parses /\ ~file[2].parses /\ file[3].parses
    /\ AllNormalizable
    /\ pc = "crashed"
    /\ lineNo = 2
    /\ attempts = <<>>

\* C10: the candidates are the file's lines, one record per line in line
\* order; the records given to process_candidate and those handed to the store
\* are in strictly increasing line order (so none twice, none before an
\* earlier one), each handed over in one attempt and only after it was
\* normalized; the store holds no more objects than were handed over.
C10_OncePerLineInOrder ==
    /\ Len(candidates) <= Len(file)
    /\ \A n \in 1..Len(candidates) : file[n].parses /\ candidates[n] = file[n].obj
    /\ \A j, k \in 1..Len(normalized) : j < k => normalized[j] < normalized[k]
    /\ \A j, k \in 1..Len(attempts) : j < k => attempts[j].line < attempts[k].line
    /\ \A k \in 1..Len(attempts) :
          /\ attempts[k].tries = 1
          /\ attempts[k].line \in 1..Len(candidates)
          /\ \E j \in 1..Len(normalized) : normalized[j] = attempts[k].line
    /\ Len(store) <= Len(attempts)

\* C10 witness: a finished run of three lines in which the first insert
\* failed and the two after it were made, in line order.
C10_Witness ==
    /\ pc = "done"
    /\ Len(attempts) = 3
    /\ ~attempts[1].stored
    /\ attempts[2].stored
    /\ <<attempts[1].line, attempts[2].line, attempts[3].line>> = <<1, 2, 3>>

----------------------------------------------------------------------------
(* Properties of process_candidate *)

NestedKeys == {"education", "experiences", "locations"}

IsDict(e) == e.t = "dict"

\* the raw record x without the entries of its nested arrays that are not dicts
SkipStray(x) ==
    PDict([k \in DOMAIN x.d |->
              IF k \in NestedKeys /\ x.d[k].t = "list"
              THEN PList(SelectSeq(x.d[k].l, IsDict))
              ELSE x.d[k]])

\* C4 (as claimed): for a raw record that normalizes once the entries of its
\* nested arrays that are not dicts are left out, process_candidate does not
\* raise and returns what it returns for the record without those entries:
\* the valid entries, in their order.
C4_StrayEntriesSkipped ==
    (/\ pc = "returned"
     /\ arg.t = "dict"
     /\ SkipStray(arg) # arg
     /\ process_candidate(SkipStray(arg)).ok)
    => /\ ret.ok
       /\ ret = process_candidate(SkipStray(arg))

\* the raw record x is the fully populated record with some keys left out and
\* some bound to null
OnlyMissingOrNull(x) ==
    /\ x.t = "dict"
    /\ DOMAIN x.d \subseteq DOMAIN Base.d
    /\ \A k \in DOMAIN x.d : x.d[k] = None \/ x.d[k] = Base.d[k]

\* C5 (as claimed): for a raw record whose keys are missing, null or well
\* formed, process_candidate returns a record whose five sequence fields are
\* lists and whose candidate_activity is a dict.
C5_SequencesNeverNull ==
    (pc = "returned" /\ OnlyMissingOrNull(arg))
    => /\ ret.ok
       /\ \A k \in {"jobSearchenvironment", "skills", "education",
                    "experiences", "locations"} : ret.v.d[k].t = "list"
       /\ ret.v.d["candidate_activity"].t = "dict"

\* the year the rule of C7 gives for the value x of a year key
ExpectedYear(x) ==
    IF x = Missing \/ x = None THEN None
    ELSE IF ~PyInt(x).ok THEN None
    ELSE IF PyInt(x).v.i = 0 THEN None
    ELSE PyInt(x).v

\* C7 (as claimed): for a raw record that is well formed but for the years of
\* its education entries, process_candidate does not raise, and each entry's
\* two years are Absent when the value is 0, missing, null or not parsable as
\* an integer, and the integer otherwise.
C7_YearsZeroOrUnparsableAbsent ==
    (/\ pc = "returned"
     /\ arg.t = "dict"
     /\ DOMAIN arg.d = DOMAIN Base.d
     /\ Without(arg, "education") = Without(Base, "education")
     /\ arg.d["education"].t = "list")
    => /\ ret.ok
       /\ Len(ret.v.d["education"].l) = Len(SelectSeq(arg.d["education"].l, IsDict))
       /\ \A i \in 1..Len(ret.v.d["education"].l) :
             \A key \in {"university_start_year", "university_end_year"} :
                 /\ ret.v.d["education"].l[i].d[key] # PInt(0)
                 /\ ret.v.d["education"].l[i].d[key] =
                       ExpectedYear(DictGet(SelectSeq(arg.d["education"].l, IsDict)[i],
                                            key, Missing))

\* C9 (as claimed): process_candidate applied to the record it returned
\* returns that record again.
C9_FixedPoint == pc = "renormalized" => (ret2.ok /\ ret2 = ret)

----------------------------------------------------------------------------
(* Properties of parse_date *)

Date1850 == PStr(<<"1", "8", "5", "0", "-", "0", "1", "-", "0", "1">>)

\* the text s is d...d-dd-dd followed by suffix, the digits a date of the calendar
IsDateThen(s, suffix) ==
    /\ Len(s) >= 7 + Len(suffix)
    /\ SubSeq(s, Len(s) - Len(suffix) + 1, Len(s)) = suffix
    /\ s[Len(s) - Len(suffix) - 2] = "-"
    /\ s[Len(s) - Len(suffix) - 5] = "-"
    /\ AllDigits(SubSeq(s, 1, Len(s) - Len(suffix) - 6))
    /\ AllDigits(SubSeq(s, Len(s) - Len(suffix) - 4, Len(s) - Len(suffix) - 3))
    /\ AllDigits(SubSeq(s, Len(s) - Len(suffix) - 1, Len(s) - Len(suffix)))

YearOfText(s, suffix) == NatOfChars(SubSeq(s, 1, Len(s) - Len(suffix) - 6))

MonthOfText(s, suffix) ==
    NatOfChars(SubSeq(s, Len(s) - Len(suffix) - 4, Len(s) - Len(suffix) - 3))

DayOfText(s, suffix) ==
    NatOfChars(SubSeq(s, Len(s) - Len(suffix) - 1, Len(s) - Len(suffix)))

\* C6 (as claimed): parse_date does not raise and returns Absent or a
\* timestamp YYYY-MM-DDT00:00:00+00:00 whose year is in 1900..refYear + 5;
\* 1850-01-01 gives Absent.
C6_CanonicalInWindow ==
    pc = "returned" =>
        /\ ret.ok
        /\ \/ ret.v = None
           \/ /\ ret.v.t = "str"
              /\ Len(ret.v.s) = 25
              /\ IsDateThen(ret.v.s, <<"T", "0", "0", ":", "0", "0", ":", "0", "0", "+", "0", "0", ":", "0", "0">>)
              /\ YearOfText(ret.v.s, <<"T", "0", "0", ":", "0", "0", ":", "0", "0", "+", "0", "0", ":", "0", "0">>) \in 1900..(refYear + 5)
        /\ arg = Date1850 => ret.v = None

\* C6 (amended): parse_date does not raise and returns Absent or the date
\* alone, as text YYYY-MM-DD with no time or offset, of a date of the
\* calendar in the years 1 to 9999 (the year in fewer than 4 digits where
\* the platform's strftime does not pad it): there is no window on the
\* year, and 1850-01-01 gives 1850-01-01. Empty text and text that is not a
\* 4-digit year, a month and a day give Absent.
C6_TotalDateOnly ==
    pc = "returned" =>
        /\ ret.ok
        /\ \/ ret.v = None
           \/ /\ ret.v.t = "str"
              /\ IsDateThen(ret.v.s, <<>>)
              /\ YearOfText(ret.v.s, <<>>) \in 1..9999
              /\ \/ Len(ret.v.s) = 10
                 \/ ~padYear /\ YearOfText(ret.v.s, <<>>) < 1000 /\ ret.v.s[1] # "0"
              /\ MonthOfText(ret.v.s, <<>>) \in 1..12
              /\ DayOfText(ret.v.s, <<>>) \in
                     1..DaysInMonth(YearOfText(ret.v.s, <<>>), MonthOfText(ret.v.s, <<>>))
        /\ arg = Date1850 => ret.v = Date1850
        /\ arg \in {EmptyStr, PStr(<<"a", "b", "c">>), PStr(<<"9", "9", "-", "0", "1", "-", "0", "1">>), PStr(<<"2", "0", "2", "4">>), PStr(<<"2", "0", "2", "4", "-", "0", "1">>)} => ret.v = None

\* C6 witness: parse_date returned 1850-01-01 for 1850-01-01 with the
\* reference year 2024.
C6_Witness ==
    /\ pc = "returned"
    /\ refYear = 2024
    /\ arg = Date1850
    /\ ret = Ok(Date1850)

============================================================================
